---- MODULE Spec2Model ----
(***************************************************************************)
(* State-machine model of two UI controllers of skyux2:                    *)
(*   - SkyInfiniteScrollComponent (infinite-scroll.component.ts)           *)
(*   - SkyAutocompleteComponent   (autocomplete.component.ts)              *)
(* Every handler of a component is one action; the browser (scrolling,     *)
(* layout changes, key presses, promise resolution) is the environment.    *)
(***************************************************************************)
EXTENDS Integers, Sequences, FiniteSets, TLC

\* ------------------------------------------------------------------------
\* Bounds of the model
\* ------------------------------------------------------------------------
\* largest vertical coordinate (offsetTop, scroll position)
MaxPos == 2
\* largest visible height of the viewport
MaxHeight == 1
\* longest chain of ancestors between the trigger element and document.body
MaxDepth == 2
\* longest text the bound input reports
MaxTextLen == 2
\* most searches in flight at once
MaxPending == 2
\* longest dataset given to the default search
MaxData == 3
\* largest searchResultsLimit given to the default search
MaxLimit == 2

\* ------------------------------------------------------------------------
\* Infinite scroll: state
\* ------------------------------------------------------------------------
VARIABLES
  hasMore,                  \* @Input hasMore
  isLoading,                \* isLoading.value (BehaviorSubject)
  elementPosition,          \* private elementPosition (-1: not yet assigned)
  scrollableParentEl,       \* Window, an ancestor index, or NoElement
  scrollableParentIsWindow, \* private flag
  listeners,                \* listeners registered through renderer.listen
  onLoad,                   \* payloads emitted on onLoad by the last step
  scrollPhase,              \* "constructed" | "attached" | "destroyed"
  \* environment: the DOM
  ancestors,                \* overflow-y of parent, grandparent, ..., body
  offsetTop,                \* element.nativeElement.offsetTop
  scrollPos,                \* scrollY / scrollTop of the viewport
  viewHeight,               \* innerHeight / clientHeight of the viewport
  \* history
  lastEvent,                \* the event the last step delivered
  clearedSinceLoad,         \* isLoading went true -> false since the last emission
  offsetAtLoad,             \* offsetTop when onLoad last emitted (-1: never)
  loadOutstanding,          \* a load was emitted and no event has since been
                            \* handled while offsetTop # elementPosition
  loadCount                 \* emissions of onLoad so far: 0, 1, 2 for more

scrollVars == <<hasMore, isLoading, elementPosition, scrollableParentEl,
                scrollableParentIsWindow, listeners, onLoad, scrollPhase,
                ancestors, offsetTop, scrollPos, viewHeight, lastEvent,
                clearedSinceLoad, offsetAtLoad, loadOutstanding,
                loadCount>>

\* ------------------------------------------------------------------------
\* Autocomplete: state
\* ------------------------------------------------------------------------
VARIABLES
  \* @Input configuration
  searchKind,               \* search: "default" (defaultSearchFunction, an
                            \* array) or "promise" (a custom function)
  data,                     \* @Input data
  propertiesToSearch,       \* @Input propertiesToSearch
  searchResultsLimit,       \* @Input searchResultsLimit (0: not set)
  descriptorProperty,       \* @Input descriptorProperty
  searchTextMinimumCharacters,
  hasInputDirective,        \* @ContentChild inputDirective is present
  \* fields
  searchResults,            \* any[] or UndefinedResults
  searchText,               \* string or UndefinedText
  isMouseEnter,
  searchResultsIndex,
  subscriptions,            \* subscriptions to inputDirective.searchTextChange
  autoPhase,                \* "constructed" | "attached" | "failed" | "destroyed"
  \* collaborators
  inputValue,               \* inputDirective.value
  pending,                  \* searches in flight: <<[text, immediate]>>
  \* what the last step sent
  dropdownMessages,         \* messages put on dropdownMessageStream
  selectionChange,          \* events emitted on selectionChange
  searchCalls,              \* arguments the search function was called with
  thrown,                   \* the handler ended with an exception
  \* history
  lastCall,                 \* <<handler, argument>> of the last step
  closedInFlight,           \* the dropdown was closed while searches were in
                            \* flight, no search was invoked since and one of
                            \* them is still in flight
  navStage,                 \* progress of the key sequence down, (index
                            \* report), enter: 0 none, 1 down pressed with two
                            \* results and the cursor at 0, 2 the dropdown
                            \* reported index 1, 3 enter pressed
  searchOut                 \* what the last defaultSearchFunction call did

autoVars == <<searchKind, data, propertiesToSearch, searchResultsLimit,
              descriptorProperty, searchTextMinimumCharacters,
              hasInputDirective, searchResults, searchText, isMouseEnter,
              searchResultsIndex, subscriptions, autoPhase, inputValue,
              pending, dropdownMessages, selectionChange, searchCalls,
              thrown, lastCall, closedInFlight, navStage, searchOut>>

vars == <<scrollVars, autoVars>>

\* the global window object, as a value of scrollableParentEl
Window == 0
\* scrollableParentEl before ngOnInit
NoElement == -1

OverflowStyles == {"auto", "scroll", "visible"}

Positions == 0..MaxPos
Heights == 1..MaxHeight

\* chains of ancestors: element k of the chain is the k-th ancestor of the
\* trigger element, the last one is document.body
AncestorChains == UNION {[1..n -> OverflowStyles] : n \in 1..MaxDepth}

\* an ancestor whose overflow-y is neither auto nor scroll and whose length
\* property is 0: a form element without controls
ZeroLength == "visible, length 0"
ElementKinds == OverflowStyles \cup {ZeroLength}

\* the chains of up to n ancestors of which any but document.body may be
\* such an element
ChainsUpTo(n) ==
  UNION {{c \in [1..k -> ElementKinds] : c[k] \in OverflowStyles} : k \in 1..n}

\* ------------------------------------------------------------------------
\* Infinite scroll: functions of the component
\* ------------------------------------------------------------------------
\* element.length <= 0: the trigger element and document.body have no length
\* property (undefined <= 0 is false), a form without controls has length 0
lengthIsZero(element) ==
  element \in 1..(Len(ancestors) - 1) /\ ancestors[element] = ZeroLength

\* getScrollableParent(element): element 0 is the trigger element, element
\* k >= 1 the k-th ancestor.  Returns the viewport and the value of the flag
\* scrollableParentIsWindow after the call (flag is its value before).
\* The trigger is attached below document.body.
RECURSIVE getScrollableParent(_, _)
getScrollableParent(element, flag) ==
  IF lengthIsZero(element) \/ element = Len(ancestors)
  THEN [el |-> Window, isWindow |-> TRUE]
  ELSE LET parentEl == element + 1 IN
       IF ancestors[parentEl] = "auto" \/ ancestors[parentEl] = "scroll"
       THEN [el |-> parentEl, isWindow |-> flag]
       ELSE getScrollableParent(parentEl, flag)

\* infiniteScrollInView(): scrollY/innerHeight exist on the window only,
\* scrollTop/clientHeight on elements only; a missing property makes the sum
\* NaN and the comparison false.
infiniteScrollInView ==
  IF scrollableParentIsWindow
  THEN scrollableParentEl = Window /\ scrollPos + viewHeight > offsetTop
  ELSE scrollableParentEl # Window /\ scrollPos + viewHeight > offsetTop

\* startInfiniteScrollLoad() without the test of isLoading in its first branch
startInfiniteScrollLoad_NoLoadingTest ==
  IF hasMore /\ infiniteScrollInView
  THEN /\ isLoading' = TRUE
       /\ onLoad' = << <<>> >>
       /\ UNCHANGED elementPosition
  ELSE IF isLoading /\ offsetTop # elementPosition
  THEN /\ elementPosition' = offsetTop
       /\ isLoading' = FALSE
       /\ onLoad' = <<>>
  ELSE /\ UNCHANGED <<elementPosition, isLoading>>
       /\ onLoad' = <<>>

\* startInfiniteScrollLoad() without the test of hasMore in its first branch
startInfiniteScrollLoad_NoHasMoreTest ==
  IF ~isLoading /\ infiniteScrollInView
  THEN /\ isLoading' = TRUE
       /\ onLoad' = << <<>> >>
       /\ UNCHANGED elementPosition
  ELSE IF isLoading /\ offsetTop # elementPosition
  THEN /\ elementPosition' = offsetTop
       /\ isLoading' = FALSE
       /\ onLoad' = <<>>
  ELSE /\ UNCHANGED <<elementPosition, isLoading>>
       /\ onLoad' = <<>>

\* startInfiniteScrollLoad(): the 'scroll' listener
startInfiniteScrollLoad ==
  IF hasMore /\ ~isLoading /\ infiniteScrollInView
  THEN /\ isLoading' = TRUE
       /\ onLoad' = << <<>> >>
       /\ UNCHANGED elementPosition
  ELSE IF isLoading /\ offsetTop # elementPosition
  THEN /\ elementPosition' = offsetTop
       /\ isLoading' = FALSE
       /\ onLoad' = <<>>
  ELSE /\ UNCHANGED <<elementPosition, isLoading>>
       /\ onLoad' = <<>>

\* the 'DOMNodeInserted' listener clearing isLoading without comparing offsets
domNodeInserted_NoOffsetTest ==
  /\ onLoad' = <<>>
  /\ IF isLoading
     THEN /\ elementPosition' = offsetTop
          /\ isLoading' = FALSE
     ELSE UNCHANGED <<elementPosition, isLoading>>

\* the 'DOMNodeInserted' listener registered in ngOnInit
domNodeInserted ==
  /\ onLoad' = <<>>
  /\ IF isLoading /\ offsetTop # elementPosition
     THEN /\ elementPosition' = offsetTop
          /\ isLoading' = FALSE
     ELSE UNCHANGED <<elementPosition, isLoading>>

\* history of a step that delivered event ev to a listener
Delivered(ev) ==
  /\ lastEvent' = ev
  /\ clearedSinceLoad' = IF onLoad' # <<>> THEN FALSE
                         ELSE IF isLoading /\ ~isLoading' THEN TRUE
                         ELSE clearedSinceLoad
  /\ offsetAtLoad' = IF onLoad' # <<>> THEN offsetTop ELSE offsetAtLoad
  /\ loadOutstanding' = IF onLoad' # <<>> THEN TRUE
                        ELSE IF offsetTop # elementPosition THEN FALSE
                        ELSE loadOutstanding
  /\ loadCount' = IF onLoad' # <<>> /\ loadCount < 2
                  THEN loadCount + 1 ELSE loadCount

\* ------------------------------------------------------------------------
\* Infinite scroll: actions
\* ------------------------------------------------------------------------
ngOnInit ==
  /\ UNCHANGED autoVars
  /\ scrollPhase = "constructed"
  /\ LET r == getScrollableParent(0, scrollableParentIsWindow) IN
       /\ scrollableParentEl' = r.el
       /\ scrollableParentIsWindow' = r.isWindow
  /\ elementPosition' = offsetTop
  /\ listeners' = {"scroll", "DOMNodeInserted"}
  /\ scrollPhase' = "attached"
  /\ onLoad' = <<>>
  /\ lastEvent' = "ngOnInit"
  /\ UNCHANGED <<hasMore, isLoading, ancestors, offsetTop, scrollPos,
                 viewHeight, clearedSinceLoad, offsetAtLoad,
                 loadOutstanding, loadCount>>

\* ngOnDestroy() that turns off the 'scroll' listener only
ngOnDestroyScroll_ScrollOnly ==
  /\ UNCHANGED autoVars
  /\ scrollPhase = "attached"
  /\ listeners' = listeners \ {"scroll"}
  /\ scrollPhase' = "destroyed"
  /\ onLoad' = <<>>
  /\ lastEvent' = "ngOnDestroy"
  /\ UNCHANGED <<hasMore, isLoading, elementPosition, scrollableParentEl,
                 scrollableParentIsWindow, ancestors, offsetTop, scrollPos,
                 viewHeight, clearedSinceLoad, offsetAtLoad,
                 loadOutstanding, loadCount>>

\* ngOnDestroy(): both functions returned by renderer.listen are called
ngOnDestroyScroll ==
  /\ UNCHANGED autoVars
  /\ scrollPhase = "attached"
  /\ listeners' = (listeners \ {"scroll"}) \ {"DOMNodeInserted"}
  /\ scrollPhase' = "destroyed"
  /\ onLoad' = <<>>
  /\ lastEvent' = "ngOnDestroy"
  /\ UNCHANGED <<hasMore, isLoading, elementPosition, scrollableParentEl,
                 scrollableParentIsWindow, ancestors, offsetTop, scrollPos,
                 viewHeight, clearedSinceLoad, offsetAtLoad,
                 loadOutstanding, loadCount>>

\* a 'scroll' event of the viewport reaches the listener
OnScroll ==
  /\ UNCHANGED autoVars
  /\ "scroll" \in listeners
  /\ startInfiniteScrollLoad
  /\ Delivered("scroll")
  /\ UNCHANGED <<hasMore, scrollableParentEl, scrollableParentIsWindow,
                 listeners, scrollPhase, ancestors, offsetTop, scrollPos,
                 viewHeight>>

\* a 'DOMNodeInserted' event of the viewport reaches the listener
OnDOMNodeInserted ==
  /\ UNCHANGED autoVars
  /\ "DOMNodeInserted" \in listeners
  /\ domNodeInserted
  /\ Delivered("DOMNodeInserted")
  /\ UNCHANGED <<hasMore, scrollableParentEl, scrollableParentIsWindow,
                 listeners, scrollPhase, ancestors, offsetTop, scrollPos,
                 viewHeight>>

\* the host binds a new value to hasMore
SetHasMore ==
  /\ UNCHANGED autoVars
  /\ hasMore' = ~hasMore
  /\ onLoad' = <<>>
  /\ lastEvent' = "hasMore"
  /\ UNCHANGED <<isLoading, elementPosition, scrollableParentEl,
                 scrollableParentIsWindow, listeners, scrollPhase, ancestors,
                 offsetTop, scrollPos, viewHeight, clearedSinceLoad,
                 offsetAtLoad, loadOutstanding, loadCount>>

\* layout moves the trigger element (content inserted or removed above it)
OffsetChange ==
  /\ UNCHANGED autoVars
  /\ \E o \in Positions \ {offsetTop} : offsetTop' = o
  /\ onLoad' = <<>>
  /\ lastEvent' = "offset"
  /\ UNCHANGED <<hasMore, isLoading, elementPosition, scrollableParentEl,
                 scrollableParentIsWindow, listeners, scrollPhase, ancestors,
                 scrollPos, viewHeight, clearedSinceLoad, offsetAtLoad,
                 loadOutstanding, loadCount>>

\* the viewport is scrolled or resized (the event is delivered by OnScroll)
ViewportChange ==
  /\ UNCHANGED autoVars
  /\ \E p \in Positions, h \in Heights :
       /\ <<p, h>> # <<scrollPos, viewHeight>>
       /\ scrollPos' = p
       /\ viewHeight' = h
  /\ onLoad' = <<>>
  /\ lastEvent' = "viewport"
  /\ UNCHANGED <<hasMore, isLoading, elementPosition, scrollableParentEl,
                 scrollableParentIsWindow, listeners, scrollPhase, ancestors,
                 offsetTop, clearedSinceLoad, offsetAtLoad,
                 loadOutstanding, loadCount>>

\* ------------------------------------------------------------------------
\* Autocomplete: values
\* ------------------------------------------------------------------------
\* A text is a sequence of characters.
Chars == {"a", " "}
WhitespaceChars == {" "}

\* every text of length n over the set of characters cs
TextsOfLen(cs, n) == [1..n -> cs]
Texts == UNION {TextsOfLen(Chars, n) : n \in 0..MaxTextLen}

\* the value of a string field that was never assigned
UndefinedText == <<"undefined">>

\* A record of the dataset has the fields name and city; a field the record
\* does not have holds UndefinedText.
Rec(n, c) == [name |-> n, city |-> c]
UndefinedRecord == Rec(UndefinedText, UndefinedText)
\* the value of searchResults before the first assignment
UndefinedResults == <<UndefinedRecord>>

RecA == Rec(<<"a">>, UndefinedText)
RecAA == Rec(<<"a", "a">>, UndefinedText)
AutoData == <<RecA, RecAA>>

\* the result lists a custom search function may resolve to
ResultLists == {<<>>, <<RecA>>, <<RecAA>>, <<RecA, RecAA>>, <<RecAA, RecA>>}

\* the values the host gives to searchTextMinimumCharacters (1 by default)
MinimumCharacterSettings == {1, 2}

Keys == {"arrowdown", "arrowup", "tab", "enter", "escape", "a"}

\* ------------------------------------------------------------------------
\* Autocomplete: functions
\* ------------------------------------------------------------------------
\* String.prototype.toLowerCase, character by character
LowerChar(c) ==
  CASE c = "A" -> "a"
    [] c = "B" -> "b"
    [] c = "N" -> "n"
    [] c = "O" -> "o"
    [] OTHER -> c
toLowerCase(t) == [i \in 1..Len(t) |-> LowerChar(t[i])]

\* String.prototype.trim
RECURSIVE trimStart(_)
trimStart(t) ==
  IF t # <<>> /\ Head(t) \in WhitespaceChars THEN trimStart(Tail(t)) ELSE t
RECURSIVE trimEnd(_)
trimEnd(t) ==
  IF t # <<>> /\ t[Len(t)] \in WhitespaceChars
  THEN trimEnd(SubSeq(t, 1, Len(t) - 1)) ELSE t
trim(t) == trimEnd(trimStart(t))

\* searchText.match(/^\s+$/)
matchesWhitespaceOnly(t) ==
  Len(t) >= 1 /\ \A i \in 1..Len(t) : t[i] \in WhitespaceChars

\* value.indexOf(q): the first 0-based position of q in value, -1 if none
indexOf(value, q) ==
  LET hits == {i \in 0..(Len(value) - Len(q)) :
                 SubSeq(value, i + 1, i + Len(q)) = q}
  IN IF hits = {} THEN -1 ELSE CHOOSE i \in hits : \A j \in hits : i <= j

\* (result[property] || '').toString().toLowerCase(), for fields that hold
\* strings
fieldValue(result, property) ==
  LET v == IF property \in DOMAIN result THEN result[property]
           ELSE UndefinedText
  IN IF v = UndefinedText THEN <<>> ELSE toLowerCase(v)

\* propertiesToSearch.find(...) of defaultSearchFunction, from position k on:
\* TRUE when find returns a property (isMatch is that property's name, which
\* is truthy for the non-empty names used here)
RECURSIVE findProperty(_, _, _, _)
findProperty(result, props, k, searchTextLower) ==
  IF k > Len(props) THEN FALSE
  ELSE IF indexOf(fieldValue(result, props[k]), searchTextLower) > -1 THEN TRUE
  ELSE findProperty(result, props, k + 1, searchTextLower)

\* limitReached comparing with < in place of <=
limitReached_OffByOne(limit, results) == limit # 0 /\ limit < Len(results)

\* limitReached of defaultSearchFunction, tested at the top of an iteration
limitReached(limit, results) == limit # 0 /\ limit <= Len(results)

\* the loop of defaultSearchFunction from index i (1-based) on; evaluated
\* lists the indices of the records whose fields were examined
RECURSIVE searchLoop(_, _, _, _, _, _, _)
searchLoop(d, props, limit, searchTextLower, i, results, evaluated) ==
  IF i > Len(d) THEN [results |-> results, evaluated |-> evaluated]
  ELSE IF limitReached(limit, results)
  THEN [results |-> results, evaluated |-> evaluated]
  ELSE LET result == d[i]
           isMatch == findProperty(result, props, 1, searchTextLower)
       IN searchLoop(d, props, limit, searchTextLower, i + 1,
                     IF isMatch THEN Append(results, result) ELSE results,
                     Append(evaluated, i))

defaultSearchFunction(d, props, limit, text) ==
  searchLoop(d, props, limit, toLowerCase(text), 1, <<>>, <<>>)

\* hasSearchResults() that does not look at searchResults
hasSearchResults_NoTest == TRUE

\* hasSearchResults()
hasSearchResults ==
  searchResults # UndefinedResults /\ Len(searchResults) > 0

autoConfig == <<searchKind, data, propertiesToSearch, searchResultsLimit,
                descriptorProperty, searchTextMinimumCharacters,
                hasInputDirective>>

\* <<handler, argument>> of a step, for the history; results is the response
\* a completed search delivered to its continuation, empty for other steps
Call(op, text, key, index) ==
  [op |-> op, text |-> text, key |-> key, index |-> index, results |-> <<>>]

\* a search whose response is an array is continued in a microtask, which
\* runs before the browser delivers any other event
NoMicrotask == \A i \in 1..Len(pending) : ~pending[i].immediate

RemoveAt(q, i) == SubSeq(q, 1, i - 1) \o SubSeq(q, i + 1, Len(q))

\* history of a step of the autocomplete, from what the step sent
CloseTracked ==
  closedInFlight' =
    (/\ pending' # <<>>
     /\ IF dropdownMessages' = <<"Close">> THEN TRUE
        ELSE IF searchCalls' # <<>> THEN FALSE
        ELSE closedInFlight)

\* closeDropdown()
closeDropdown ==
  /\ searchResults' = <<>>
  /\ dropdownMessages' = <<"Close">>

\* performSearch(searchText) and the registration of the continuation
performSearch(text) ==
  /\ searchCalls' = <<text>>
  /\ pending' = Append(pending, [text |-> text,
                                 immediate |-> (searchKind = "default")])

\* searchTextChanged() without the test of isSearchTextLongEnough
searchTextChanged_NoMinimumTest(text) ==
  LET isSearchTextEmpty == text = <<>> \/ matchesWhitespaceOnly(text)
      isSearchTextDifferent == text # searchText
  IN IF isSearchTextEmpty
     THEN /\ searchText' = <<>>
          /\ closeDropdown
          /\ searchCalls' = <<>>
          /\ UNCHANGED pending
     ELSE IF isSearchTextDifferent
     THEN /\ searchText' = trim(text)
          /\ performSearch(trim(text))
          /\ dropdownMessages' = <<>>
          /\ UNCHANGED searchResults
     ELSE /\ searchCalls' = <<>>
          /\ dropdownMessages' = <<>>
          /\ UNCHANGED <<searchText, searchResults, pending>>

\* searchTextChanged() that takes only the empty string for empty
searchTextChanged_NoWhitespaceTest(text) ==
  LET isSearchTextEmpty == text = <<>>
      isSearchTextLongEnough == Len(text) >= searchTextMinimumCharacters
      isSearchTextDifferent == text # searchText
  IN IF isSearchTextEmpty
     THEN /\ searchText' = <<>>
          /\ closeDropdown
          /\ searchCalls' = <<>>
          /\ UNCHANGED pending
     ELSE IF isSearchTextLongEnough /\ isSearchTextDifferent
     THEN /\ searchText' = trim(text)
          /\ performSearch(trim(text))
          /\ dropdownMessages' = <<>>
          /\ UNCHANGED searchResults
     ELSE /\ searchCalls' = <<>>
          /\ dropdownMessages' = <<>>
          /\ UNCHANGED <<searchText, searchResults, pending>>

\* searchTextChanged(searchText = '')
searchTextChanged(text) ==
  LET isSearchTextEmpty == text = <<>> \/ matchesWhitespaceOnly(text)
      isSearchTextLongEnough == Len(text) >= searchTextMinimumCharacters
      isSearchTextDifferent == text # searchText
  IN IF isSearchTextEmpty
     THEN /\ searchText' = <<>>
          /\ closeDropdown
          /\ searchCalls' = <<>>
          /\ UNCHANGED pending
     ELSE IF isSearchTextLongEnough /\ isSearchTextDifferent
     THEN /\ searchText' = trim(text)
          /\ performSearch(trim(text))
          /\ dropdownMessages' = <<>>
          /\ UNCHANGED searchResults
     ELSE /\ searchCalls' = <<>>
          /\ dropdownMessages' = <<>>
          /\ UNCHANGED <<searchText, searchResults, pending>>

\* selectActiveSearchResult(), index being the value of searchResultsIndex
\* at the call; reading a property of searchResults[index] when index is no
\* index of the array throws a TypeError before anything is assigned
selectActiveSearchResult(index) ==
  IF hasSearchResults
  THEN IF index + 1 \in DOMAIN searchResults
       THEN LET result == searchResults[index + 1] IN
            /\ searchText' = result[descriptorProperty]
            /\ inputValue' = result
            /\ selectionChange' = <<[searchResult |-> result]>>
            /\ closeDropdown
            /\ thrown' = FALSE
       ELSE /\ thrown' = TRUE
            /\ selectionChange' = <<>>
            /\ dropdownMessages' = <<>>
            /\ UNCHANGED <<searchText, inputValue, searchResults>>
  ELSE /\ thrown' = FALSE
       /\ selectionChange' = <<>>
       /\ dropdownMessages' = <<>>
       /\ UNCHANGED <<searchText, inputValue, searchResults>>

\* handleKeyDown(event), event.key already lower-cased
handleKeyDown(key) ==
  CASE key = "arrowdown" ->
         /\ dropdownMessages' = <<"FocusNextItem">>
         /\ selectionChange' = <<>>
         /\ thrown' = FALSE
         /\ UNCHANGED <<searchText, inputValue, searchResults>>
    [] key = "arrowup" ->
         /\ dropdownMessages' = <<"FocusPreviousItem">>
         /\ selectionChange' = <<>>
         /\ thrown' = FALSE
         /\ UNCHANGED <<searchText, inputValue, searchResults>>
    [] key \in {"tab", "enter"} ->
         IF hasSearchResults
         THEN selectActiveSearchResult(searchResultsIndex)
         ELSE /\ dropdownMessages' = <<>>
              /\ selectionChange' = <<>>
              /\ thrown' = FALSE
              /\ UNCHANGED <<searchText, inputValue, searchResults>>
    [] key = "escape" ->
         /\ closeDropdown
         /\ selectionChange' = <<>>
         /\ thrown' = FALSE
         /\ UNCHANGED <<searchText, inputValue>>
    [] OTHER ->
         /\ dropdownMessages' = <<>>
         /\ selectionChange' = <<>>
         /\ thrown' = FALSE
         /\ UNCHANGED <<searchText, inputValue, searchResults>>

\* ------------------------------------------------------------------------
\* Autocomplete: actions
\* ------------------------------------------------------------------------
ngAfterContentInit ==
  /\ UNCHANGED scrollVars
  /\ navStage' = 0
  /\ autoPhase = "constructed"
  /\ IF ~hasInputDirective
     THEN /\ thrown' = TRUE
          /\ autoPhase' = "failed"
          /\ UNCHANGED subscriptions
     ELSE /\ thrown' = FALSE
          /\ autoPhase' = "attached"
          /\ subscriptions' = subscriptions + 1
  /\ dropdownMessages' = <<>>
  /\ selectionChange' = <<>>
  /\ searchCalls' = <<>>
  /\ lastCall' = Call("ngAfterContentInit", <<>>, "", 0)
  /\ UNCHANGED <<autoConfig, searchResults, searchText, isMouseEnter,
                 searchResultsIndex, inputValue, pending, searchOut>>
  /\ CloseTracked

ngOnDestroyAuto ==
  /\ UNCHANGED scrollVars
  /\ navStage' = 0
  /\ autoPhase = "attached"
  /\ NoMicrotask
  /\ subscriptions' = 0
  /\ autoPhase' = "destroyed"
  /\ dropdownMessages' = <<>>
  /\ selectionChange' = <<>>
  /\ searchCalls' = <<>>
  /\ thrown' = FALSE
  /\ lastCall' = Call("ngOnDestroy", <<>>, "", 0)
  /\ UNCHANGED <<autoConfig, searchResults, searchText, isMouseEnter,
                 searchResultsIndex, inputValue, pending, searchOut>>
  /\ CloseTracked

\* the bound input emits searchTextChange and the subscription of
\* ngAfterContentInit calls searchTextChanged(value.searchText)
OnSearchTextChange ==
  /\ UNCHANGED scrollVars
  /\ navStage' = 0
  /\ subscriptions > 0
  /\ NoMicrotask
  /\ \E text \in Texts :
       /\ Len(pending) < MaxPending
            \/ text = <<>> \/ matchesWhitespaceOnly(text)
            \/ Len(text) < searchTextMinimumCharacters
            \/ text = searchText
       /\ searchTextChanged(text)
       /\ lastCall' = Call("searchTextChanged", text, "", 0)
  /\ selectionChange' = <<>>
  /\ thrown' = FALSE
  /\ UNCHANGED <<autoConfig, isMouseEnter, searchResultsIndex, subscriptions,
                 autoPhase, inputValue, searchOut>>
  /\ CloseTracked

\* the continuation adding the response to the results already shown
SearchCompleted_Appends ==
  /\ UNCHANGED scrollVars
  /\ navStage' = 0
  /\ \E i \in 1..Len(pending) :
       /\ NoMicrotask \/ pending[i].immediate
       /\ \E results \in
               IF pending[i].immediate
               THEN {defaultSearchFunction(data, propertiesToSearch,
                       searchResultsLimit, pending[i].text).results}
               ELSE ResultLists :
            /\ searchResults' = (IF hasSearchResults THEN searchResults
                                ELSE <<>>) \o results
            /\ lastCall' = [Call("then", pending[i].text, "", i)
                              EXCEPT !.results = results]
       /\ pending' = RemoveAt(pending, i)
  /\ dropdownMessages' = <<"Open">>
  /\ selectionChange' = <<>>
  /\ searchCalls' = <<>>
  /\ thrown' = FALSE
  /\ UNCHANGED <<autoConfig, searchText, isMouseEnter, searchResultsIndex,
                 subscriptions, autoPhase, inputValue, searchOut>>
  /\ CloseTracked

\* the response of the i-th search in flight arrives: the continuation given
\* to then() runs
SearchCompleted ==
  /\ UNCHANGED scrollVars
  /\ navStage' = 0
  /\ \E i \in 1..Len(pending) :
       /\ NoMicrotask \/ pending[i].immediate
       /\ \E results \in
               IF pending[i].immediate
               THEN {defaultSearchFunction(data, propertiesToSearch,
                       searchResultsLimit, pending[i].text).results}
               ELSE ResultLists :
            /\ searchResults' = results
            /\ lastCall' = [Call("then", pending[i].text, "", i)
                              EXCEPT !.results = results]
       /\ pending' = RemoveAt(pending, i)
  /\ dropdownMessages' = <<"Open">>
  /\ selectionChange' = <<>>
  /\ searchCalls' = <<>>
  /\ thrown' = FALSE
  /\ UNCHANGED <<autoConfig, searchText, isMouseEnter, searchResultsIndex,
                 subscriptions, autoPhase, inputValue, searchOut>>
  /\ CloseTracked

\* the promise of a custom search is rejected: then() was given no handler
\* for that
SearchRejected ==
  /\ UNCHANGED scrollVars
  /\ navStage' = 0
  /\ NoMicrotask
  /\ \E i \in 1..Len(pending) :
       /\ pending' = RemoveAt(pending, i)
       /\ lastCall' = Call("rejected", pending[i].text, "", 0)
  /\ dropdownMessages' = <<>>
  /\ selectionChange' = <<>>
  /\ searchCalls' = <<>>
  /\ thrown' = FALSE
  /\ UNCHANGED <<autoConfig, searchResults, searchText, isMouseEnter,
                 searchResultsIndex, subscriptions, autoPhase, inputValue,
                 searchOut>>
  /\ CloseTracked

\* @HostListener('keydown')
OnKeyDown ==
  /\ UNCHANGED scrollVars
  /\ autoPhase # "destroyed"
  /\ NoMicrotask
  /\ \E key \in Keys :
       /\ handleKeyDown(key)
       /\ lastCall' = Call("handleKeyDown", <<>>, key, 0)
       /\ navStage' =
            IF key = "arrowdown" /\ hasSearchResults
               /\ Len(searchResults) = 2 /\ searchResultsIndex = 0
            THEN 1
            ELSE IF key = "enter" /\ navStage = 2 THEN 3
            ELSE 0
  /\ searchCalls' = <<>>
  /\ UNCHANGED <<autoConfig, isMouseEnter, searchResultsIndex, subscriptions,
                 autoPhase, pending, searchOut>>
  /\ CloseTracked

\* @HostListener('document:click')
OnDocumentClick ==
  /\ UNCHANGED scrollVars
  /\ navStage' = 0
  /\ autoPhase # "destroyed"
  /\ NoMicrotask
  /\ IF ~isMouseEnter
     THEN closeDropdown
     ELSE /\ dropdownMessages' = <<>>
          /\ UNCHANGED searchResults
  /\ selectionChange' = <<>>
  /\ searchCalls' = <<>>
  /\ thrown' = FALSE
  /\ lastCall' = Call("onDocumentClick", <<>>, "", 0)
  /\ UNCHANGED <<autoConfig, searchText, isMouseEnter, searchResultsIndex,
                 subscriptions, autoPhase, inputValue, pending, searchOut>>
  /\ CloseTracked

\* @HostListener('mouseenter') and @HostListener('mouseleave')
OnMouseEnterLeave ==
  /\ UNCHANGED scrollVars
  /\ navStage' = 0
  /\ autoPhase # "destroyed"
  /\ NoMicrotask
  /\ \E enter \in BOOLEAN :
       /\ isMouseEnter' = enter
       /\ lastCall' = Call(IF enter THEN "onMouseEnter" ELSE "onMouseLeave",
                           <<>>, "", 0)
  /\ dropdownMessages' = <<>>
  /\ selectionChange' = <<>>
  /\ searchCalls' = <<>>
  /\ thrown' = FALSE
  /\ UNCHANGED <<autoConfig, searchResults, searchText, searchResultsIndex,
                 subscriptions, autoPhase, inputValue, pending, searchOut>>
  /\ CloseTracked

\* onMenuChange(change) that does not store change.activeIndex
OnMenuChange_IndexDropped ==
  /\ UNCHANGED scrollVars
  /\ autoPhase # "destroyed"
  /\ NoMicrotask
  /\ hasSearchResults
  /\ \E activeIndex \in 0..(Len(searchResults) - 1) :
       /\ lastCall' = Call("onMenuChange", <<>>, "", activeIndex)
       /\ navStage' = IF navStage = 1 /\ activeIndex = 1 THEN 2 ELSE 0
  /\ dropdownMessages' = <<>>
  /\ selectionChange' = <<>>
  /\ searchCalls' = <<>>
  /\ thrown' = FALSE
  /\ UNCHANGED <<autoConfig, searchResults, searchText, isMouseEnter,
                 searchResultsIndex, subscriptions, autoPhase, inputValue,
                 pending, searchOut>>
  /\ CloseTracked

\* the dropdown reports the index of the item it focuses, one of the items
\* it shows: onMenuChange(change)
OnMenuChange ==
  /\ UNCHANGED scrollVars
  /\ autoPhase # "destroyed"
  /\ NoMicrotask
  /\ hasSearchResults
  /\ \E activeIndex \in 0..(Len(searchResults) - 1) :
       /\ searchResultsIndex' = activeIndex
       /\ lastCall' = Call("onMenuChange", <<>>, "", activeIndex)
       /\ navStage' = IF navStage = 1 /\ activeIndex = 1 THEN 2 ELSE 0
  /\ dropdownMessages' = <<>>
  /\ selectionChange' = <<>>
  /\ searchCalls' = <<>>
  /\ thrown' = FALSE
  /\ UNCHANGED <<autoConfig, searchResults, searchText, isMouseEnter,
                 subscriptions, autoPhase, inputValue, pending, searchOut>>
  /\ CloseTracked

\* a click on the index-th result shown: onSearchResultClick(index)
OnSearchResultClick ==
  /\ UNCHANGED scrollVars
  /\ navStage' = 0
  /\ autoPhase # "destroyed"
  /\ NoMicrotask
  /\ hasSearchResults
  /\ \E index \in 0..(Len(searchResults) - 1) :
       /\ searchResultsIndex' = index
       /\ lastCall' = Call("onSearchResultClick", <<>>, "", index)
       /\ selectActiveSearchResult(index)
  /\ searchCalls' = <<>>
  /\ UNCHANGED <<autoConfig, isMouseEnter, subscriptions, autoPhase, pending,
                 searchOut>>
  /\ CloseTracked

NoCall == Call("none", <<>>, "", 0)
NoSearchOut == [query |-> <<>>, results |-> <<>>, evaluated |-> <<>>]

\* the fields of the component after construction
AutoConstructed ==
  /\ searchResults = UndefinedResults
  /\ searchText = UndefinedText
  /\ isMouseEnter = FALSE
  /\ searchResultsIndex = 0
  /\ subscriptions = 0
  /\ autoPhase = "constructed"
  /\ inputValue = UndefinedRecord
  /\ pending = <<>>
  /\ dropdownMessages = <<>>
  /\ selectionChange = <<>>
  /\ searchCalls = <<>>
  /\ thrown = FALSE
  /\ lastCall = NoCall
  /\ closedInFlight = FALSE
  /\ navStage = 0
  /\ searchOut = NoSearchOut

\* the infinite-scroll component after construction, in one fixed document
ScrollConstructed ==
  /\ hasMore = TRUE
  /\ isLoading = FALSE
  /\ elementPosition = -1
  /\ scrollableParentEl = NoElement
  /\ scrollableParentIsWindow = FALSE
  /\ listeners = {}
  /\ onLoad = <<>>
  /\ scrollPhase = "constructed"
  /\ lastEvent = "none"
  /\ clearedSinceLoad = TRUE
  /\ offsetAtLoad = -1
  /\ loadOutstanding = FALSE
  /\ loadCount = 0

InitAuto ==
  /\ ScrollConstructed
  /\ ancestors = <<"visible">>
  /\ offsetTop = 0
  /\ scrollPos = 0
  /\ viewHeight = 1
  /\ AutoConstructed
  /\ searchKind \in {"default", "promise"}
  /\ data = AutoData
  /\ propertiesToSearch = <<"name">>
  /\ searchResultsLimit = 0
  /\ descriptorProperty = "name"
  /\ searchTextMinimumCharacters \in MinimumCharacterSettings
  /\ hasInputDirective \in BOOLEAN

NextAuto ==
  \/ ngAfterContentInit
  \/ ngOnDestroyAuto
  \/ OnSearchTextChange
  \/ SearchCompleted
  \/ SearchRejected
  \/ OnKeyDown
  \/ OnDocumentClick
  \/ OnMouseEnterLeave
  \/ OnMenuChange
  \/ OnSearchResultClick

SpecAuto == InitAuto /\ [][NextAuto]_vars

\* ------------------------------------------------------------------------
\* Default search on its own: the inputs are drawn from bounded sets
\* ------------------------------------------------------------------------
RecAnn == Rec(<<"A", "n", "n">>, UndefinedText)
RecAnna == Rec(<<"A", "n", "n", "a">>, UndefinedText)
RecBob == Rec(<<"B", "o", "b">>, UndefinedText)
RecBobOfAnn == Rec(<<"B", "o", "b">>, <<"A", "n", "n">>)
SearchRecords == {RecAnn, RecAnna, RecBob, RecBobOfAnn}
Datasets == UNION {[1..n -> SearchRecords] : n \in 0..MaxData}
PropertyLists == {<<>>, <<"name">>, <<"city">>, <<"name", "city">>}
Queries == {<<>>, <<"a", "n">>, <<"A", "N">>, <<"b">>, <<"n", "n", "a">>,
            <<"x">>}

\* this.search(searchText) with search = defaultSearchFunction
DefaultSearch ==
  /\ UNCHANGED scrollVars
  /\ \E text \in Queries :
       /\ searchOut' =
            [query |-> text] @@
            defaultSearchFunction(data, propertiesToSearch,
                                  searchResultsLimit, text)
       /\ lastCall' = Call("defaultSearchFunction", text, "", 0)
  /\ UNCHANGED <<autoConfig, searchResults, searchText, isMouseEnter,
                 searchResultsIndex, subscriptions, autoPhase, inputValue,
                 pending, dropdownMessages, selectionChange, searchCalls,
                 thrown, closedInFlight, navStage>>

InitSearch ==
  /\ ScrollConstructed
  /\ ancestors = <<"visible">>
  /\ offsetTop = 0
  /\ scrollPos = 0
  /\ viewHeight = 1
  /\ AutoConstructed
  /\ searchKind = "default"
  /\ data \in Datasets
  /\ propertiesToSearch \in PropertyLists
  /\ searchResultsLimit \in 0..MaxLimit
  /\ descriptorProperty = "name"
  /\ searchTextMinimumCharacters = 1
  /\ hasInputDirective = TRUE

NextSearch == DefaultSearch

SpecSearch == InitSearch /\ [][NextSearch]_vars

InitScroll ==
  /\ ScrollConstructed
  /\ ancestors \in AncestorChains
  /\ offsetTop \in Positions
  /\ scrollPos = 0
  /\ viewHeight \in Heights
  /\ AutoConstructed
  /\ searchKind = "default"
  /\ data = AutoData
  /\ propertiesToSearch = <<"name">>
  /\ searchResultsLimit = 0
  /\ descriptorProperty = "name"
  /\ searchTextMinimumCharacters = 1
  /\ hasInputDirective = TRUE

NextScroll ==
  \/ ngOnInit
  \/ ngOnDestroyScroll
  \/ OnScroll
  \/ OnDOMNodeInserted
  \/ SetHasMore
  \/ OffsetChange
  \/ ViewportChange

SpecScroll == InitScroll /\ [][NextScroll]_vars

\* ------------------------------------------------------------------------
\* Both components on one page, with the events their listeners and
\* subscriptions are registered for, the layout changes and the responses of
\* the default search
\* ------------------------------------------------------------------------
InitTeardown ==
  /\ ScrollConstructed
  /\ ancestors = <<"visible">>
  /\ offsetTop \in Positions
  /\ scrollPos = 0
  /\ viewHeight = 1
  /\ AutoConstructed
  /\ searchKind = "default"
  /\ data = AutoData
  /\ propertiesToSearch = <<"name">>
  /\ searchResultsLimit = 0
  /\ descriptorProperty = "name"
  /\ searchTextMinimumCharacters = 1
  /\ hasInputDirective = TRUE

NextTeardown ==
  \/ ngOnInit
  \/ ngOnDestroyScroll
  \/ OnScroll
  \/ OnDOMNodeInserted
  \/ OffsetChange
  \/ ngAfterContentInit
  \/ ngOnDestroyAuto
  \/ OnSearchTextChange
  \/ SearchCompleted

SpecTeardown == InitTeardown /\ [][NextTeardown]_vars

\* ------------------------------------------------------------------------
\* Resolution of the scrollable parent on its own: the ancestor chains are
\* one longer and may hold elements whose length is 0
\* ------------------------------------------------------------------------
InitParent ==
  /\ ScrollConstructed
  /\ ancestors \in ChainsUpTo(MaxDepth + 1)
  /\ offsetTop \in Positions
  /\ scrollPos = 0
  /\ viewHeight = 1
  /\ AutoConstructed
  /\ searchKind = "default"
  /\ data = AutoData
  /\ propertiesToSearch = <<"name">>
  /\ searchResultsLimit = 0
  /\ descriptorProperty = "name"
  /\ searchTextMinimumCharacters = 1
  /\ hasInputDirective = TRUE

NextParent ==
  \/ ngOnInit
  \/ ngOnDestroyScroll

SpecParent == InitParent /\ [][NextParent]_vars

\* ------------------------------------------------------------------------
\* Infinite scroll: properties
\* ------------------------------------------------------------------------
\* the trigger's offsetTop differs from what it was when the pending load
\* request was emitted
changedSinceLoad == offsetTop # offsetAtLoad

ListenerEvents == {"scroll", "DOMNodeInserted"}

\* C1: a step emits a load request only from a state in which isLoading is
\* false, emits at most one, and since the previous emission (if any)
\* isLoading has gone from true back to false.
C1_NoLoadWhileLoading ==
  [][onLoad' # <<>> =>
       /\ ~isLoading
       /\ clearedSinceLoad
       /\ Len(onLoad') = 1]_vars

\* C1 witness: a second load request has been emitted.
C1_Witness == onLoad # <<>> /\ loadCount = 2 /\ isLoading

\* C2 (as claimed): a scroll event handled with hasMore, not loading and the
\* trigger in view emits exactly one load signal and sets isLoading; a scroll
\* event handled while that load is pending and offsetTop is what it was at
\* the emission emits nothing and leaves isLoading true.
C2_Claim ==
  [][lastEvent' = "scroll" =>
       /\ (hasMore /\ ~isLoading /\ infiniteScrollInView)
            => (onLoad' = << <<>> >> /\ isLoading')
       /\ (isLoading /\ ~changedSinceLoad)
            => (onLoad' = <<>> /\ isLoading')]_vars

\* the part of C2 that the code keeps: the first scroll emits exactly one
\* signal and sets isLoading, the second emits none
C2_EmissionPart ==
  [][lastEvent' = "scroll" =>
       /\ (hasMore /\ ~isLoading /\ infiniteScrollInView)
            => (onLoad' = << <<>> >> /\ isLoading')
       /\ isLoading => onLoad' = <<>>]_vars

\* C3 (as claimed): once offsetTop has changed while isLoading is true (it is
\* no longer what it was when the load request was emitted), the next scroll
\* or DOM-insertion event sets isLoading to false and
\* elementPosition to offsetTop; a scroll event after that, with hasMore and
\* the trigger in view, emits a load signal again.
C3_Claim ==
  [][lastEvent' \in ListenerEvents =>
       /\ (isLoading /\ changedSinceLoad)
            => (~isLoading' /\ elementPosition' = offsetTop)
       /\ (lastEvent' = "scroll" /\ clearedSinceLoad /\ ~isLoading
             /\ hasMore /\ infiniteScrollInView)
            => onLoad' # <<>>]_vars

\* C4 (as claimed): isLoading is true exactly when a load request has been
\* emitted and the trigger's offset has not changed since.
C4_Claim == isLoading <=> (loadCount > 0 /\ ~changedSinceLoad)

\* C4 (amended): isLoading is true exactly when a load request has been
\* emitted and no scroll or DOM-insertion event has since been handled while
\* offsetTop differed from elementPosition.
C4_LoadingUntilObserved == isLoading <=> loadOutstanding

\* C4 witness: the trigger has moved after a load request and isLoading is
\* still true, the change not yet seen by a listener.
C4_Witness == isLoading /\ changedSinceLoad /\ offsetTop # elementPosition

\* C5: from a state in which hasMore is false no step emits a load signal or
\* turns isLoading from false to true.
C5_NoLoadWithoutMore ==
  [][~hasMore => (onLoad' = <<>> /\ (isLoading' => isLoading))]_vars

\* C5 witness: a scroll event was handled with hasMore false while the
\* trigger was in view and nothing was loading.
C5_Witness ==
  /\ lastEvent = "scroll"
  /\ ~hasMore
  /\ ~isLoading
  /\ infiniteScrollInView

\* ------------------------------------------------------------------------
\* Autocomplete: properties
\* ------------------------------------------------------------------------
Range(q) == {q[i] : i \in 1..Len(q)}

\* the step is a call of searchTextChanged
IsTextStep == lastCall'.op = "searchTextChanged"
\* the step is a selection attempt: tab or enter, or a click on a result
IsSelectStep ==
  \/ lastCall'.op = "handleKeyDown" /\ lastCall'.key \in {"tab", "enter"}
  \/ lastCall'.op = "onSearchResultClick"

\* C6: a call of searchTextChanged with a text shorter than
\* searchTextMinimumCharacters calls no search function, puts no search in
\* flight, sends no Open message and does not make searchResults non-empty.
C6_ShortTextNoSearch ==
  [][(IsTextStep /\ Len(lastCall'.text) < searchTextMinimumCharacters) =>
       /\ searchCalls' = <<>>
       /\ pending' = pending
       /\ "Open" \notin Range(dropdownMessages')
       /\ (hasSearchResults' => hasSearchResults)]_vars

\* C6 witness: the text "a" arrived with a minimum of 2 characters, and the
\* dropdown is closed with no search in flight.
C6_Witness ==
  /\ lastCall.op = "searchTextChanged"
  /\ lastCall.text = <<"a">>
  /\ searchTextMinimumCharacters = 2
  /\ ~hasSearchResults
  /\ pending = <<>>
  /\ searchCalls = <<>>

\* C7: a call of searchTextChanged with an empty or whitespace-only text sets
\* searchText to the empty string and searchResults to the empty list,
\* sends exactly one Close message and calls no search function.
C7_EmptyTextResets ==
  [][(IsTextStep /\ (lastCall'.text = <<>>
                      \/ \A i \in 1..Len(lastCall'.text) :
                           lastCall'.text[i] \in WhitespaceChars)) =>
       /\ searchText' = <<>>
       /\ searchResults' = <<>>
       /\ dropdownMessages' = <<"Close">>
       /\ searchCalls' = <<>>
       /\ pending' = pending]_vars

\* C7 witness: a whitespace-only text arrived after a selection had been made
\* and while a search was in flight.
C7_Witness ==
  /\ lastCall.op = "searchTextChanged"
  /\ lastCall.text = <<" ">>
  /\ inputValue # UndefinedRecord
  /\ pending # <<>>
  /\ searchText = <<>>

\* C9 (as claimed): a selection attempt (tab, enter, click on result i) made
\* with a non-empty result list selects the record searchResults[index]:
\* searchText becomes its descriptor field, the record is written to the
\* bound input, exactly one selection-change event carries it, searchResults
\* is emptied and one Close message is sent.
C9_Claim ==
  [][(IsSelectStep /\ hasSearchResults) =>
       /\ searchResultsIndex' + 1 \in DOMAIN searchResults
       /\ LET result == searchResults[searchResultsIndex' + 1] IN
            /\ searchText' = result[descriptorProperty]
            /\ inputValue' = result
            /\ selectionChange' = <<[searchResult |-> result]>>
            /\ searchResults' = <<>>
            /\ dropdownMessages' = <<"Close">>]_vars

\* the part of C9 that the code keeps: the same, for the selection attempts
\* whose index is an index of the result list
C9_InRangePart ==
  [][(IsSelectStep /\ hasSearchResults
        /\ searchResultsIndex' + 1 \in DOMAIN searchResults) =>
       LET result == searchResults[searchResultsIndex' + 1] IN
         /\ searchText' = result[descriptorProperty]
         /\ inputValue' = result
         /\ selectionChange' = <<[searchResult |-> result]>>
         /\ searchResults' = <<>>
         /\ dropdownMessages' = <<"Close">>]_vars

\* C10: the key "arrowdown" sends exactly FocusNextItem; and when it was
\* pressed with two results and the cursor at 0 and the dropdown then
\* reported the active index 1, a following "enter" emits one
\* selection-change event that carries searchResults[1] (the second record).
C10_DownThenEnter ==
  [][/\ (lastCall'.op = "handleKeyDown" /\ lastCall'.key = "arrowdown")
          => dropdownMessages' = <<"FocusNextItem">>
     /\ (navStage = 2 /\ navStage' = 3)
          => selectionChange' = <<[searchResult |-> searchResults[2]]>>]_vars

\* C10 witness: down, the report of index 1 and enter have happened in
\* that order, and the second of two different records was selected.
C10_Witness ==
  /\ navStage = 3
  /\ selectionChange = <<[searchResult |-> RecAA]>>
  /\ inputValue = RecAA

\* ------------------------------------------------------------------------
\* Default search: properties
\* ------------------------------------------------------------------------
\* q occurs in v as a contiguous run of characters
OccursIn(q, v) ==
  \E start \in 1..(Len(v) + 1) :
    \A j \in 1..Len(q) : start + j - 1 <= Len(v) /\ v[start + j - 1] = q[j]

\* the lower-cased text of a field, the empty text for a field without value
LoweredField(r, property) ==
  IF r[property] = UndefinedText THEN <<>>
  ELSE [i \in 1..Len(r[property]) |-> LowerChar(r[property][i])]

\* the lower-cased query occurs in the lower-cased value of a configured field
RecordMatches(r, q) ==
  \E k \in 1..Len(propertiesToSearch) :
    OccursIn([i \in 1..Len(q) |-> LowerChar(q[i])],
             LoweredField(r, propertiesToSearch[k]))

\* the number of matching records among the first n of the dataset
MatchesBefore(n, q) ==
  Cardinality({i \in 1..n : RecordMatches(data[i], q)})

\* C8: the result of the default search is the matching records of the
\* dataset in dataset order, cut to the first searchResultsLimit of them when
\* a limit is set, and every record whose fields were examined has fewer than
\* searchResultsLimit matching records before it.
C8_DefaultSearch ==
  lastCall.op = "defaultSearchFunction" =>
    LET q == searchOut.query
        all == SelectSeq(data, LAMBDA r : RecordMatches(r, q))
        expected == IF searchResultsLimit > 0 /\ Len(all) > searchResultsLimit
                    THEN SubSeq(all, 1, searchResultsLimit)
                    ELSE all
    IN /\ searchOut.results = expected
       /\ \A k \in 1..Len(searchOut.evaluated) :
            searchResultsLimit > 0 =>
              MatchesBefore(searchOut.evaluated[k] - 1, q) < searchResultsLimit

\* C8 witness: dataset [Ann, Anna, Bob], fields [name], limit 2, query "an"
\* gave [Ann, Anna] and Bob was not examined.
C8_Witness ==
  /\ lastCall.op = "defaultSearchFunction"
  /\ data = <<RecAnn, RecAnna, RecBob>>
  /\ propertiesToSearch = <<"name">>
  /\ searchResultsLimit = 2
  /\ searchOut.query = <<"a", "n">>
  /\ searchOut.results = <<RecAnn, RecAnna>>
  /\ searchOut.evaluated = <<1, 2>>

\* ------------------------------------------------------------------------
\* Autocomplete: overlapping searches
\* ------------------------------------------------------------------------
\* the step is the continuation of a completed search
IsThenStep == lastCall'.op = "then"

\* C11: every completion of a search, whatever its place among the searches
\* in flight, takes that search out of flight, makes searchResults exactly
\* the response of that search and sends exactly one Open message, so that
\* after the last completion searchResults is the response that arrived
\* last; the array returned by the default search goes through the same
\* continuation and is the response of its search.
C11_LastCompletionWins ==
  [][IsThenStep =>
       /\ lastCall'.index \in 1..Len(pending)
       /\ pending' = RemoveAt(pending, lastCall'.index)
       /\ lastCall'.text = pending[lastCall'.index].text
       /\ searchResults' = lastCall'.results
       /\ dropdownMessages' = <<"Open">>
       /\ (searchKind = "default") =>
            lastCall'.results =
              defaultSearchFunction(data, propertiesToSearch,
                                    searchResultsLimit,
                                    lastCall'.text).results]_vars

\* C11 witness: with two searches in flight the one issued second has
\* completed first and its response, a non-empty list that differs from the
\* one shown before, is what searchResults holds; the first is still in
\* flight.
C11_Witness ==
  /\ lastCall.op = "then"
  /\ lastCall.index = 2
  /\ Len(pending) = 1
  /\ pending[1].text # lastCall.text
  /\ lastCall.results = <<RecAA>>
  /\ searchResults = <<RecAA>>
  /\ dropdownMessages = <<"Open">>

\* ------------------------------------------------------------------------
\* Resolution of the scrollable parent: properties
\* ------------------------------------------------------------------------
\* the ancestors, document.body among them, whose overflow-y is auto or
\* scroll
ScrollableAncestors ==
  {k \in 1..Len(ancestors) : ancestors[k] \in {"auto", "scroll"}}

\* the viewport is the nearest of these ancestors, the window when there is
\* none, and the flag is true exactly for the window
ResolvedAsClaimed ==
  /\ IF ScrollableAncestors = {}
     THEN scrollableParentEl = Window
     ELSE /\ scrollableParentEl \in ScrollableAncestors
          /\ \A k \in ScrollableAncestors : scrollableParentEl <= k
  /\ scrollableParentIsWindow <=> scrollableParentEl = Window

\* C12 (as claimed): once ngOnInit has resolved the viewport, for every
\* ancestor chain it is the first ancestor, walking up from the trigger,
\* whose overflow-y is auto or scroll, the window if there is none, and
\* scrollableParentIsWindow is true if and only if it is the window.
C12_Claim == scrollPhase # "constructed" => ResolvedAsClaimed

\* the part of C12 that the code keeps: the same, for the chains in which no
\* element below the first scrollable ancestor has a length of 0
C12_NoZeroLengthPart ==
  (/\ scrollPhase # "constructed"
   /\ \A k \in 1..Len(ancestors) :
        ancestors[k] = ZeroLength => \E j \in ScrollableAncestors : j < k)
    => ResolvedAsClaimed

C14_TeardownUnregisters ==
  [][/\ scrollPhase = "destroyed" =>
          /\ listeners = {}
          /\ lastEvent' \notin ListenerEvents
          /\ isLoading' = isLoading
          /\ elementPosition' = elementPosition
          /\ onLoad' = <<>>
     /\ autoPhase = "destroyed" =>
          /\ subscriptions = 0
          /\ lastCall'.op # "searchTextChanged"
          /\ searchText' = searchText
          /\ searchCalls' = <<>>]_vars

\* C14 witness: both components are destroyed, the autocomplete with a text
\* committed and its results shown; since its ngOnDestroy the trigger of
\* the infinite scroll has moved while a load was pending, which a listener
\* would have taken for the end of the load.
C14_Witness ==
  /\ scrollPhase = "destroyed"
  /\ lastEvent = "offset"
  /\ isLoading
  /\ offsetTop # elementPosition
  /\ autoPhase = "destroyed"
  /\ searchText = <<"a">>
  /\ hasSearchResults

\* ------------------------------------------------------------------------
\* Autocomplete: the active index
\* ------------------------------------------------------------------------
\* C15 (as claimed): whenever a selection attempt (tab, enter, click on a
\* result) is made with a non-empty result list, the index it reads
\* searchResults at is an index of that list:
\* 0 <= searchResultsIndex < length(searchResults).
C15_Claim ==
  [][(IsSelectStep /\ hasSearchResults) =>
       (0 <= searchResultsIndex'
        /\ searchResultsIndex' < Len(searchResults))]_vars

\* ------------------------------------------------------------------------
\* Autocomplete: stale responses
\* ------------------------------------------------------------------------
\* C16 (as claimed): a non-empty searchResults is the result of the search
\* invoked for the committed searchText: whenever a completed search fills
\* searchResults, that search was invoked for the text that searchText holds,
\* so that the response to an earlier text never takes the place of the
\* results for the current one.
C16_Claim ==
  [][(IsThenStep /\ hasSearchResults') => lastCall'.text = searchText']_vars

\* C17 (as claimed): while the dropdown is closed and no search has been
\* invoked since it was closed, searchResults stays empty and no Open
\* message is sent, whether a search is still in flight from before the
\* close (which then must not reopen it) or none is.
C17_Claim ==
  [][(closedInFlight \/ (pending = <<>> /\ searchResults = <<>>)) =>
       /\ searchResults' = <<>>
       /\ "Open" \notin Range(dropdownMessages')]_vars

\* the part of C17 that the code keeps: with no search in flight an empty
\* result list stays empty and unopened
C17_NothingInFlightPart ==
  [][(pending = <<>> /\ searchResults = <<>>) =>
       /\ searchResults' = <<>>
       /\ "Open" \notin Range(dropdownMessages')]_vars

\* ------------------------------------------------------------------------
\* Autocomplete: the text that is committed and searched
\* ------------------------------------------------------------------------
\* C18 (as claimed): a call of searchTextChanged never calls the search
\* function with an argument equal to the value searchText held just before
\* the call.
C18_Claim ==
  [][(IsTextStep /\ searchCalls' # <<>>) =>
       \A k \in 1..Len(searchCalls') : searchCalls'[k] # searchText]_vars

\* C20 (as claimed): a call of searchTextChanged never calls the search
\* function with an argument shorter than searchTextMinimumCharacters, and
\* the text it commits to searchText is empty or has at least
\* searchTextMinimumCharacters characters.
C20_Claim ==
  [][IsTextStep =>
       /\ \A k \in 1..Len(searchCalls') :
            Len(searchCalls'[k]) >= searchTextMinimumCharacters
       /\ searchText' # searchText =>
            (searchText' = <<>>
             \/ Len(searchText') >= searchTextMinimumCharacters)]_vars

\* the part of C20 that the code keeps: the minimum holds for the text as
\* the input reported it, before it is trimmed
C20_RawLengthPart ==
  [][(IsTextStep /\ searchCalls' # <<>>) =>
       Len(lastCall'.text) >= searchTextMinimumCharacters]_vars

\* ------------------------------------------------------------------------
\* Infinite scroll: the offset a load request is compared with
\* ------------------------------------------------------------------------
\* C19 (as claimed): at the step that emits a load request elementPosition
\* equals the trigger's offsetTop, and a step clears isLoading only when
\* offsetTop is no longer what it was when the pending request was emitted.
C19_Claim ==
  [][/\ onLoad' # <<>> => elementPosition' = offsetTop'
     /\ (isLoading /\ ~isLoading') => changedSinceLoad]_vars

====
